---- MODULE Spec2Model ----
(***************************************************************************)
(* A model of ftp_sync (src/ftp_sync/FTP.py, src/ftp_sync/__main__.py):    *)
(* the FTPSync engine (digest store, decision table, backup, push, pull,   *)
(* sync) on top of FTPHelper (download cache, directory listing, transfer  *)
(* commands), over a small local and a small remote file system.           *)
(*                                                                         *)
(* A handler of the program is one action.  Inside a handler the Python    *)
(* statements are composed as operators over a "machine" record m that     *)
(* carries the file systems, the engine's fields, the raised exception     *)
(* (m.exc, "none" while running normally) and the value returned by the    *)
(* last call (m.ret).  An operator applied to a machine whose exc is set   *)
(* does nothing: that is exception propagation.                            *)
(***************************************************************************)
EXTENDS Integers, Sequences, FiniteSets, TLC

(***************************************************************************)
(* Bounds of the model.                                                    *)
(***************************************************************************)
\* number of operations (handlers, edits, clock ticks) in a behaviour
MaxOps == 2
\* the remote command of a handler at which a transport fault may be injected
MaxFaultAt == 2
\* the longest file content of the specification of the patcher
MaxLen == 3
\* the last remote command of a transfer at which a fault may be injected
MaxCmd == 6
\* the last remote command of a directory operation at which a fault may be
\* injected
MaxDirCmd == 10

(***************************************************************************)
(* Values.                                                                 *)
(***************************************************************************)
\* Python's None: an optional value is <<>> or <<x>>
None == <<>>

Min(a, b) == IF a < b THEN a ELSE b
Max(a, b) == IF a > b THEN a ELSE b

\* data[:n] of Python, n possibly negative
PySliceTo(data, n) ==
    IF n >= 0 THEN SubSeq(data, 1, Min(n, Len(data)))
              ELSE SubSeq(data, 1, Max(0, Len(data) + n))

\* hashlib.md5(bytes).hexdigest(): a collision-free tag of the bytes
md5(data) == <<data>>

\* DESMumePatcher.DESMUME_FOOTER, abbreviated to two bytes
DESMUME_FOOTER == <<9, 9>>

\* DESMumePatcher.from_remote: append the footer
from_remote(data) == data \o DESMUME_FOOTER

\* to_remote that cuts a single byte off the end
to_remote_CutOne(data) == PySliceTo(data, Len(data) - 1)

\* DESMumePatcher.to_remote: cut len(footer) bytes off the end
to_remote(data) == PySliceTo(data, Len(data) - Len(DESMUME_FOOTER))

\* patcher.from_remote(f) / patcher.to_remote(f) for the configured patcher:
\* "none" is patcher=None, "desmume" the DESMumePatcher of patcher_dict
PatchFromRemote(p, data) == IF p = "desmume" THEN from_remote(data) ELSE data
PatchToRemote(p, data) == IF p = "desmume" THEN to_remote(data) ELSE data

\* FTPSync verdict codes
LOCAL_TO_REMOTE == 0
REMOTE_TO_LOCAL == 1
DO_NOT_SYNC == 2

(***************************************************************************)
(* Paths.  A path is a sequence of segments, a segment is <<stem, suffix>>;*)
(* the program holds a path either as a str or as a pathlib.Path, which    *)
(* never compare equal and are different dictionary keys.                  *)
(***************************************************************************)
PStr(segs) == [typ |-> "str", segs |-> segs]
PPath(segs) == [typ |-> "Path", segs |-> segs]
\* Path(p)
AsPath(p) == [p EXCEPT !.typ = "Path"]
\* Path(p).parent and Path(p).name
Parent(segs) == SubSeq(segs, 1, Len(segs) - 1)
Name(segs) == segs[Len(segs)]

SegL == <<"l", "">>
SegR == <<"r", "">>
SegA == <<"a", ".sav">>
SegB == <<"b", ".sav">>

LDir == <<SegL>>
RDir == <<SegR>>
\* the order in which the remote server lists names
NameOrder == <<SegA, SegB, SegL, SegR>>
FileNames == {SegA, SegB}

\* a missing key reads as None; a written key extends the mapping
Get(f, k) == IF k \in DOMAIN f THEN f[k] ELSE None
Put(f, k, v) == [x \in (DOMAIN f) \cup {k} |-> IF x = k THEN v ELSE f[x]]
Empty == [x \in {} |-> None]

\* a file system maps the paths that exist to their nodes
FileNode(data, mtime) == [kind |-> "file", data |-> data, mtime |-> mtime]
DirNode == [kind |-> "dir", data |-> <<>>, mtime |-> 0]
Exists(fs, segs) == segs \in DOMAIN fs
IsFile(fs, segs) == segs \in DOMAIN fs /\ fs[segs].kind = "file"
IsDirNode(fs, segs) == segs \in DOMAIN fs /\ fs[segs].kind = "dir"

(***************************************************************************)
(* The machine: exceptions, the event log, remote protocol commands.       *)
(***************************************************************************)
Ok(m) == m.exc = "none"
Raise(m, e) == [m EXCEPT !.exc = e]
Ret(m, v) == [m EXCEPT !.ret = v]

\* one observable event of a handler
Event(ev, side, segs, data, old) ==
    [ev |-> ev, side |-> side, path |-> segs, data |-> data, old |-> old]
Log(m, e) == [m EXCEPT !.trace = Append(@, e)]

\* content of a node as an optional value
Content(fs, segs) == IF IsFile(fs, segs) THEN <<fs[segs].data>> ELSE None

\* a command is sent on ftp_connection
Cmd(m) == [m EXCEPT !.cmds = @ + 1]
\* the failAt-th command of the handler ends with a temporary transport
\* error (ftplib.error_temp)
Fault(m) == m.cmds + 1 = m.failAt

\* ftp_connection.retrbinary("RETR path", write): the bytes are left in ret;
\* a path that is no file is refused by the server (550, error_perm)
retrbinary(m, segs) ==
    IF ~Ok(m) THEN m
    ELSE IF Fault(m) THEN Raise(Cmd(m), "error_temp")
    ELSE IF ~IsFile(m.rfs, segs) THEN Raise(Cmd(m), "error_perm")
    ELSE Ret(Log(Cmd(m), Event("retr", "remote", segs, m.rfs[segs].data, None)),
             m.rfs[segs].data)

\* ftp_connection.storbinary("STOR path", f)
storbinary(m, segs, data) ==
    IF ~Ok(m) THEN m
    ELSE IF Fault(m) THEN Raise(Cmd(m), "error_temp")
    ELSE IF IsDirNode(m.rfs, segs) \/ ~IsDirNode(m.rfs, Parent(segs))
         THEN Raise(Cmd(m), "error_perm")
    ELSE Log([Cmd(m) EXCEPT !.rfs = Put(@, segs, FileNode(data, m.now))],
             Event("stor", "remote", segs, data, Content(m.rfs, segs)))

\* the lines of a LIST reply, one per entry, in the server's order
Listing(fs, segs) ==
    LET names == IF IsDirNode(fs, segs)
                 THEN SelectSeq(NameOrder, LAMBDA n : Exists(fs, Append(segs, n)))
                 ELSE IF IsFile(fs, segs) THEN <<Name(segs)>> ELSE <<>>
        at(n) == IF IsDirNode(fs, segs) THEN Append(segs, n) ELSE segs
    IN [i \in 1..Len(names) |->
          [name |-> names[i], isdir |-> fs[at(names[i])].kind = "dir",
           mtime |-> fs[at(names[i])].mtime]]

\* the lines of a listing that name the file
LinesOf(lines, name) == SelectSeq(lines, LAMBDA e : e.name = name)

\* FTPHelper.dir(d): the text of the LIST reply
dir(m, segs) ==
    IF ~Ok(m) THEN m
    ELSE IF Fault(m) THEN Raise(Cmd(m), "error_temp")
    ELSE Ret(Cmd(m), Listing(m.rfs, segs))

\* FTPHelper.is_dir from the listing of the parent on: text.split('\n') of
\* an empty reply is [''], and _get_line_filename('') raises IndexError
is_dir_lines(m, path) ==
    IF ~Ok(m) THEN m
    ELSE IF m.ret = <<>> THEN Raise(m, "IndexError")
    ELSE IF LinesOf(m.ret, Name(path.segs)) # <<>>
         THEN Ret(m, LinesOf(m.ret, Name(path.segs))[1].isdir)
    ELSE Ret(m, FALSE)

\* FTPHelper.is_dir(path)
is_dir(m, path) ==
    IF ~Ok(m) THEN m
    ELSE IF path.segs = <<>> THEN Ret(m, TRUE)
    ELSE is_dir_lines(dir(m, Parent(path.segs)), path)

\* FTPHelper.get_file_list from the listing on: Path(d) / name for every
\* line that is no directory; line[0] of the '' of an empty reply raises
\* IndexError
get_file_list_lines(m, d) ==
    IF ~Ok(m) THEN m
    ELSE IF m.ret = <<>> THEN Raise(m, "IndexError")
    ELSE LET files == SelectSeq(m.ret, LAMBDA e : ~e.isdir)
         IN Ret(m, [i \in 1..Len(files) |-> PPath(Append(d.segs, files[i].name))])

\* FTPHelper.get_file_list(d)
get_file_list(m, d) == get_file_list_lines(dir(m, d.segs), d)

\* FTPHelper.last_modified from the listing of the parent on: the date of
\* the path's line, None when there is no line
last_modified_lines(m, path) ==
    IF ~Ok(m) THEN m
    ELSE IF LinesOf(m.ret, Name(path.segs)) # <<>>
         THEN Ret(m, <<LinesOf(m.ret, Name(path.segs))[1].mtime>>)
    ELSE Ret(m, None)

\* FTPHelper.last_modified after MDTM was refused (error_perm): cwd to the
\* parent, where an error returns None, then the listing of the parent
last_modified_listed(m, path) ==
    IF Fault(m) \/ ~IsDirNode(m.rfs, Parent(path.segs)) THEN Ret(Cmd(m), None)
    ELSE last_modified_lines(dir(Cmd(m), Parent(path.segs)), path)

\* FTPHelper.last_modified(remote_path): MDTM
last_modified(m, path) ==
    IF ~Ok(m) THEN m
    ELSE IF Fault(m) THEN Raise(Cmd(m), "error_temp")
    ELSE IF IsFile(m.rfs, path.segs)
         THEN Ret(Cmd(m), <<m.rfs[path.segs].mtime>>)
    ELSE last_modified_listed(Cmd(m), path)

(***************************************************************************)
(* Local files, the backup directory and the download cache.               *)
(***************************************************************************)
\* the resolution of the clock: DATE_FORMAT keeps the minute
TicksPerMinute == 2
\* datetime.strftime(DATE_FORMAT)
strftime(t) == t \div TicksPerMinute

\* where a downloaded or copied file is written
LocalTarget(segs) == [to |-> "local", side |-> "local", key |-> segs]
BackupTarget(name, side) == [to |-> "backup", side |-> side, key |-> name]

\* open(target, 'w+b'): the file is created, or truncated
OpenW(m, tgt) ==
    IF ~Ok(m) THEN m
    ELSE IF tgt.to = "backup"
         THEN Log([m EXCEPT !.backups = Put(@, tgt.key, <<>>)],
                  Event("backup_open", tgt.side, tgt.key.path, <<>>,
                        Get(m.backups, tgt.key)))
    ELSE IF IsDirNode(m.lfs, tgt.key) THEN Raise(m, "IsADirectoryError")
    ELSE Log([m EXCEPT !.lfs = Put(@, tgt.key, FileNode(<<>>, m.now))],
             Event("open_w", "local", tgt.key, <<>>, Content(m.lfs, tgt.key)))

\* f.write(data) on the file opened by OpenW
WriteF(m, tgt, data) ==
    IF ~Ok(m) THEN m
    ELSE IF tgt.to = "backup"
         THEN Log([m EXCEPT !.backups = Put(@, tgt.key, data)],
                  Event("backup_write", tgt.side, tgt.key.path, data, None))
    ELSE Log([m EXCEPT !.lfs = Put(@, tgt.key, FileNode(data, m.now))],
             Event("write", "local", tgt.key, data, None))

\* FTPHelper.__init__: download_cache = None, download_cache_path = ""
NoCache == [set |-> FALSE, closed |-> FALSE, data |-> <<>>, path |-> PStr(<<>>)]

\* FTPHelper._set_download_cache(f, path): the replaced file object is closed
\* and dropped, f becomes the cache
_set_download_cache(m, data, path) ==
    [m EXCEPT !.cache = [set |-> TRUE, closed |-> FALSE, data |-> data, path |-> path]]

\* the bytes of the temporary file: f.seek(0); f.write(data) writes the
\* patched bytes over the raw ones
TempfileBytes(p, raw) ==
    IF p = "none" THEN raw
    ELSE PatchFromRemote(p, raw)
           \o SubSeq(raw, Len(PatchFromRemote(p, raw)) + 1, Len(raw))

\* FTPHelper.download_to_tempfile after RETR: patch, cache and return the
\* file object, left in ret as its bytes
download_to_tempfile_fill(m, remote_path, p) ==
    IF ~Ok(m) THEN m
    ELSE Ret(_set_download_cache(m, TempfileBytes(p, m.ret), remote_path),
             TempfileBytes(p, m.ret))

\* FTPHelper.download_to_tempfile(remote_path, patcher): a cached file object
\* is returned after seek(0), which raises ValueError on a closed file
download_to_tempfile(m, remote_path, p) ==
    IF ~Ok(m) THEN m
    ELSE IF m.cache.path = remote_path /\ m.cache.set
         THEN IF m.cache.closed THEN Raise(m, "ValueError") ELSE Ret(m, m.cache.data)
    ELSE download_to_tempfile_fill(retrbinary(m, remote_path.segs), remote_path, p)

\* FTPHelper.download_file on a cache hit, the local file opened:
\* download_cache.seek(0) and the copy
download_file_cached(m, tgt) ==
    IF ~Ok(m) THEN m
    ELSE IF m.cache.closed THEN Raise(m, "ValueError")
    ELSE WriteF(m, tgt, m.cache.data)

\* FTPHelper.download_file: the write of the retrieved bytes
download_file_write(m, tgt, p) == WriteF(m, tgt, PatchFromRemote(p, m.ret))

\* FTPHelper.download_file(remote_path, local_path, patcher): with a patcher
\* RETR comes before the local file is opened, without one after it
download_file(m, remote_path, tgt, p) ==
    IF ~Ok(m) THEN m
    ELSE IF m.cache.path = remote_path /\ m.cache.set
         THEN download_file_cached(OpenW(m, tgt), tgt)
    ELSE IF p # "none"
         THEN download_file_write(OpenW(retrbinary(m, remote_path.segs), tgt), tgt, p)
    ELSE download_file_write(retrbinary(OpenW(m, tgt), remote_path.segs), tgt, p)

\* upload_file that forgets the patcher
upload_file_Unpatched(m, local_path, remote_path, p) ==
    IF ~Ok(m) THEN m
    ELSE IF ~Exists(m.lfs, local_path.segs) THEN Raise(m, "FileNotFoundError")
    ELSE IF IsDirNode(m.lfs, local_path.segs) THEN Raise(m, "IsADirectoryError")
    ELSE storbinary(m, remote_path.segs, m.lfs[local_path.segs].data)

\* FTPHelper.upload_file(local_path, remote_path, patcher)
upload_file(m, local_path, remote_path, p) ==
    IF ~Ok(m) THEN m
    ELSE IF ~Exists(m.lfs, local_path.segs) THEN Raise(m, "FileNotFoundError")
    ELSE IF IsDirNode(m.lfs, local_path.segs) THEN Raise(m, "IsADirectoryError")
    ELSE storbinary(m, remote_path.segs,
                    PatchToRemote(p, m.lfs[local_path.segs].data))

(***************************************************************************)
(* FTPSync.                                                                *)
(***************************************************************************)
\* FTPSync.get_last_modified, remote: the epoch when last_modified is None
get_last_modified_remote(m) ==
    IF ~Ok(m) THEN m ELSE Ret(m, IF m.ret # None THEN m.ret[1] ELSE 0)

\* FTPSync.get_last_modified(path, remote): the epoch for a missing path
get_last_modified(m, path, remote) ==
    IF ~Ok(m) THEN m
    ELSE IF ~remote
         THEN Ret(m, IF Exists(m.lfs, path.segs) THEN m.lfs[path.segs].mtime ELSE 0)
    ELSE get_last_modified_remote(last_modified(m, path))

\* FTPSync._get_previous_digest(path, remote)
_get_previous_digest(m, path, remote) ==
    IF remote THEN Get(m.hash_db.remote, path) ELSE Get(m.hash_db.local, path)

\* _set_previous_digest that records the local side only
_set_previous_digest_LocalOnly(m, path, digest, remote) ==
    IF ~Ok(m) \/ remote THEN m
    ELSE Log([m EXCEPT !.hash_db.local = Put(@, path, digest)],
             Event("set_digest", "local", path.segs, digest, None))

\* FTPSync._set_previous_digest(path, digest, remote)
_set_previous_digest(m, path, digest, remote) ==
    IF ~Ok(m) THEN m
    ELSE Log(IF remote THEN [m EXCEPT !.hash_db.remote = Put(@, path, digest)]
                       ELSE [m EXCEPT !.hash_db.local = Put(@, path, digest)],
             Event("set_digest", IF remote THEN "remote" ELSE "local",
                   path.segs, digest, None))

\* FTPSync._get_digest, remote, after download_to_tempfile: error_perm and
\* error_temp give None; leaving the with block closes the file object, which
\* is the one the download cache holds
_get_digest_remote(m, path) ==
    IF m.exc \in {"error_perm", "error_temp"}
    THEN Ret(Log([m EXCEPT !.exc = "none"],
                 Event("digest_failed", "remote", path.segs, <<>>, None)),
             None)
    ELSE IF ~Ok(m) THEN m
    ELSE Ret([m EXCEPT !.cache.closed = TRUE], md5(m.ret))

\* FTPSync._get_digest(path, remote, patcher)
_get_digest(m, path, remote, p) ==
    IF ~Ok(m) THEN m
    ELSE IF remote THEN _get_digest_remote(download_to_tempfile(m, path, p), path)
    ELSE IF ~Exists(m.lfs, path.segs) THEN Ret(m, None)
    ELSE IF IsDirNode(m.lfs, path.segs) THEN Raise(m, "IsADirectoryError")
    ELSE Ret(m, md5(m.lfs[path.segs].data))

\* the decision table with the verdict of "only the remote changed" turned
\* around
SyncDirection_Swapped(lp_previous_hash, rp_previous_hash, lp_hash, rp_hash) ==
    IF rp_hash = None /\ lp_hash = None THEN <<DO_NOT_SYNC, None>>
    ELSE IF rp_hash = None /\ lp_hash # None THEN <<LOCAL_TO_REMOTE, lp_hash>>
    ELSE IF rp_hash # None /\ lp_hash = None THEN <<REMOTE_TO_LOCAL, rp_hash>>
    ELSE IF lp_previous_hash = rp_previous_hash
         THEN IF rp_hash # rp_previous_hash /\ lp_hash = lp_previous_hash
                   THEN <<LOCAL_TO_REMOTE, lp_hash>>
              ELSE IF rp_hash = rp_previous_hash /\ lp_hash # lp_previous_hash
                   THEN <<LOCAL_TO_REMOTE, lp_hash>>
              ELSE <<DO_NOT_SYNC, None>>
    ELSE <<DO_NOT_SYNC, None>>

\* the decision table that pushes whenever the local file changed, without
\* looking at the remote one
SyncDirection_LocalWins(lp_previous_hash, rp_previous_hash, lp_hash, rp_hash) ==
    IF rp_hash = None /\ lp_hash = None THEN <<DO_NOT_SYNC, None>>
    ELSE IF rp_hash = None /\ lp_hash # None THEN <<LOCAL_TO_REMOTE, lp_hash>>
    ELSE IF rp_hash # None /\ lp_hash = None THEN <<REMOTE_TO_LOCAL, rp_hash>>
    ELSE IF lp_previous_hash = rp_previous_hash
         THEN IF rp_hash # rp_previous_hash /\ lp_hash = lp_previous_hash
                   THEN <<REMOTE_TO_LOCAL, rp_hash>>
              ELSE IF lp_hash # lp_previous_hash
                   THEN <<LOCAL_TO_REMOTE, lp_hash>>
              ELSE <<DO_NOT_SYNC, None>>
    ELSE <<DO_NOT_SYNC, None>>

\* the decision table of FTPSync._get_sync_direction
SyncDirection(lp_previous_hash, rp_previous_hash, lp_hash, rp_hash) ==
    IF rp_hash = None /\ lp_hash = None THEN <<DO_NOT_SYNC, None>>
    ELSE IF rp_hash = None /\ lp_hash # None THEN <<LOCAL_TO_REMOTE, lp_hash>>
    ELSE IF rp_hash # None /\ lp_hash = None THEN <<REMOTE_TO_LOCAL, rp_hash>>
    ELSE IF lp_previous_hash = rp_previous_hash
         THEN IF rp_hash # rp_previous_hash /\ lp_hash = lp_previous_hash
                   THEN <<REMOTE_TO_LOCAL, rp_hash>>
              ELSE IF rp_hash = rp_previous_hash /\ lp_hash # lp_previous_hash
                   THEN <<LOCAL_TO_REMOTE, lp_hash>>
              ELSE IF rp_hash = rp_previous_hash /\ lp_hash = lp_previous_hash
                   THEN <<DO_NOT_SYNC, None>>
              ELSE <<DO_NOT_SYNC, None>>
    ELSE <<DO_NOT_SYNC, None>>

\* the verdict of a decision with the digests it was computed from
Verdict(v, lp_previous_hash, rp_previous_hash, lp_hash, rp_hash) ==
    [direction |-> v[1], digest |-> v[2],
     lp_previous_hash |-> lp_previous_hash, rp_previous_hash |-> rp_previous_hash,
     lp_hash |-> lp_hash, rp_hash |-> rp_hash]

\* FTPSync._get_sync_direction with the four digests read: the table
_get_sync_direction_table(m, local_path, remote_path, lp_hash) ==
    IF ~Ok(m) THEN m
    ELSE Ret(m, Verdict(SyncDirection(_get_previous_digest(m, local_path, FALSE),
                                      _get_previous_digest(m, remote_path, TRUE),
                                      lp_hash, m.ret),
                        _get_previous_digest(m, local_path, FALSE),
                        _get_previous_digest(m, remote_path, TRUE),
                        lp_hash, m.ret))

\* FTPSync._get_sync_direction with the local digest read: rp_hash
_get_sync_direction_remote(m, local_path, remote_path, p) ==
    IF ~Ok(m) THEN m
    ELSE _get_sync_direction_table(_get_digest(m, remote_path, TRUE, p),
                                   local_path, remote_path, m.ret)

\* FTPSync._get_sync_direction(local_path, remote_path, patcher): the verdict
\* and the digests it was computed from are left in ret
_get_sync_direction(m, local_path, remote_path, p) ==
    _get_sync_direction_remote(_get_digest(m, local_path, FALSE, p),
                               local_path, remote_path, p)

\* backup_filename: the subject's modification time, the time of the backup
\* and the path, the times in DATE_FORMAT
backup_filename(m, path) ==
    [lm |-> strftime(m.ret), at |-> strftime(m.now), path |-> path.segs]

\* FTPSync.backup of a local subject, the backup entry opened: the copy when
\* the subject exists
backup_local(m, path, tgt) ==
    IF ~Exists(m.lfs, path.segs) THEN m
    ELSE IF IsDirNode(m.lfs, path.segs) THEN Raise(m, "IsADirectoryError")
    ELSE WriteF(m, tgt, m.lfs[path.segs].data)

\* FTPSync.backup with the modification time read: the copy into backup_dir
backup_copy(m, path, remote) ==
    IF ~Ok(m) THEN m
    ELSE IF remote
         THEN download_file(m, path, BackupTarget(backup_filename(m, path), "remote"),
                            "none")
    ELSE backup_local(OpenW(m, BackupTarget(backup_filename(m, path), "local")),
                      path, BackupTarget(backup_filename(m, path), "local"))

\* FTPSync.backup(path, remote); every path of the model is absolute
backup(m, path, remote) ==
    IF ~Ok(m) THEN m ELSE backup_copy(get_last_modified(m, path, remote), path, remote)

\* local_path / filename: str / str raises TypeError, Path / str is a Path
Join(m, local_path, filename) ==
    IF ~Ok(m) THEN m
    ELSE IF local_path.typ = "str" THEN Raise(m, "TypeError")
    ELSE Ret(m, PPath(Append(local_path.segs, filename)))

\* both digest entries of a transferred pair
set_previous_digests(m, local_path, remote_path, digest) ==
    _set_previous_digest(_set_previous_digest(m, local_path, digest, FALSE),
                         remote_path, digest, TRUE)

RECURSIVE sync_to(_, _, _, _, _)
RECURSIVE sync_to_each(_, _, _, _, _)

\* the body of the for loop of sync_to and of sync_from: self.sync_to of the
\* joined local path and the listed file
sync_to_child(m, file, p) ==
    IF ~Ok(m) THEN m ELSE sync_to(m, m.ret, file, p, None)

\* the for loop taking the files of the listing from the last to the first
sync_to_each_Reversed(m, local_path, files, i, p) ==
    IF ~Ok(m) \/ i > Len(files) THEN m
    ELSE sync_to_each(sync_to_child(Join(m, local_path,
                                         Name(files[Len(files) + 1 - i].segs)),
                                    files[Len(files) + 1 - i], p),
                      local_path, files, i + 1, p)

\* the for loop of the directory branch of sync_to and of sync_from, from
\* the i-th file of the listing on
sync_to_each(m, local_path, files, i, p) ==
    IF ~Ok(m) \/ i > Len(files) THEN m
    ELSE sync_to_each(sync_to_child(Join(m, local_path, Name(files[i].segs)),
                                    files[i], p),
                      local_path, files, i + 1, p)

\* the directory branch of sync_to and of sync_from, the file list read
sync_to_dir(m, local_path, p) ==
    IF ~Ok(m) THEN m ELSE sync_to_each(m, local_path, m.ret, 1, p)

\* sync_to_upload that records the digests before the backup and the upload
sync_to_upload_StoreFirst(m, local_path, remote_path, p) ==
    IF ~Ok(m) THEN m
    ELSE upload_file(backup(set_previous_digests(m, local_path, remote_path, m.ret),
                            remote_path, TRUE),
                     local_path, remote_path, p)

\* the file branch of sync_to with the digest in ret: backup, upload, store
sync_to_upload(m, local_path, remote_path, p) ==
    IF ~Ok(m) THEN m
    ELSE set_previous_digests(upload_file(backup(m, remote_path, TRUE),
                                          local_path, remote_path, p),
                              local_path, remote_path, m.ret)

\* the file branch of sync_to: the digest of the local file unless given
sync_to_file(m, local_path, remote_path, p, digest) ==
    sync_to_upload(IF digest = None THEN _get_digest(m, local_path, FALSE, "none")
                                    ELSE Ret(m, digest),
                   local_path, remote_path, p)

\* sync_to that takes every pair whose local side is no directory for a
\* file pair
sync_to_kind_NoKindCheck(m, local_path, remote_path, p, digest) ==
    IF ~Ok(m) THEN m
    ELSE IF IsDirNode(m.lfs, local_path.segs) /\ m.ret
         THEN sync_to_dir(get_file_list(m, remote_path), local_path, p)
    ELSE IF ~IsDirNode(m.lfs, local_path.segs)
         THEN sync_to_file(m, local_path, remote_path, p, digest)
    ELSE [m EXCEPT !.errlog = TRUE]

\* FTPSync.sync_to with remote_is_dir in ret: the three branches
sync_to_kind(m, local_path, remote_path, p, digest) ==
    IF ~Ok(m) THEN m
    ELSE IF IsDirNode(m.lfs, local_path.segs) /\ m.ret
         THEN sync_to_dir(get_file_list(m, remote_path), local_path, p)
    ELSE IF ~IsDirNode(m.lfs, local_path.segs) /\ ~m.ret
         THEN sync_to_file(m, local_path, remote_path, p, digest)
    ELSE [m EXCEPT !.errlog = TRUE]

\* FTPSync.sync_to(local_path, remote_path, patcher, digest)
sync_to(m, local_path, remote_path, p, digest) ==
    IF ~Ok(m) THEN m
    ELSE sync_to_kind(is_dir(Log(m, Event("sync_to", "pair", local_path.segs,
                                          remote_path.segs, None)),
                             remote_path),
                      local_path, remote_path, p, digest)

\* the file branch of sync_from after the download: the digest of the local
\* file unless given, and the store
sync_from_store(m, local_path, remote_path) ==
    IF ~Ok(m) THEN m ELSE set_previous_digests(m, local_path, remote_path, m.ret)

\* the file branch of sync_from after the download: the digest
sync_from_digest(m, local_path, remote_path, digest) ==
    sync_from_store(IF digest = None THEN _get_digest(m, local_path, FALSE, "none")
                                     ELSE Ret(m, digest),
                    local_path, remote_path)

\* the file branch of sync_from that downloads first and backs the local
\* file up afterwards
sync_from_file_DownloadFirst(m, local_path, remote_path, p, digest) ==
    sync_from_digest(backup(download_file(m, remote_path,
                                          LocalTarget(local_path.segs), p),
                            local_path, FALSE),
                     local_path, remote_path, digest)

\* the file branch of sync_from: backup, download, digest, store
sync_from_file(m, local_path, remote_path, p, digest) ==
    sync_from_digest(download_file(backup(m, local_path, FALSE), remote_path,
                                   LocalTarget(local_path.segs), p),
                     local_path, remote_path, digest)

\* FTPSync.sync_from with remote_is_dir in ret: the three branches; the
\* directory branch calls self.sync_to
sync_from_kind(m, local_path, remote_path, p, digest) ==
    IF ~Ok(m) THEN m
    ELSE IF IsDirNode(m.lfs, local_path.segs) /\ m.ret
         THEN sync_to_dir(get_file_list(m, remote_path), local_path, p)
    ELSE IF ~IsDirNode(m.lfs, local_path.segs) /\ ~m.ret
         THEN sync_from_file(m, local_path, remote_path, p, digest)
    ELSE [m EXCEPT !.errlog = TRUE]

\* FTPSync.sync_from(local_path, remote_path, patcher, digest)
sync_from(m, local_path, remote_path, p, digest) ==
    IF ~Ok(m) THEN m
    ELSE sync_from_kind(is_dir(Log(m, Event("sync_from", "pair", local_path.segs,
                                            remote_path.segs, None)),
                               remote_path),
                        local_path, remote_path, p, digest)

\* the extensions argument of sync: None, or a dict with a suffix under
\* "local" and/or "remote"
NoExtensions == [set |-> FALSE, local |-> None, remote |-> None]

\* str(Path(path).stem) + suffix when the suffix of path is another one: a
\* str that holds the last segment only
Remap(path, suffix) ==
    IF suffix # None /\ Name(path.segs)[2] # suffix[1]
    THEN PStr(<<<<Name(path.segs)[1], suffix[1]>>>>)
    ELSE path

\* the paths of sync after the extensions were applied
RemapLocal(local_path, extensions) ==
    IF extensions.set THEN Remap(local_path, extensions.local) ELSE local_path
RemapRemote(remote_path, extensions) ==
    IF extensions.set THEN Remap(remote_path, extensions.remote) ELSE remote_path

\* a decision was taken: its verdict
Decided(m) ==
    IF ~Ok(m) THEN m ELSE [m EXCEPT !.verdict = m.ret, !.decided = TRUE]

\* the file branch of sync with the verdict in ret
sync_file(m, local_path, remote_path, p) ==
    IF ~Ok(m) THEN m
    ELSE IF m.ret.direction = LOCAL_TO_REMOTE
         THEN sync_to(Decided(m), local_path, remote_path, p, m.ret.digest)
    ELSE IF m.ret.direction = REMOTE_TO_LOCAL
         THEN sync_from(Decided(m), local_path, remote_path, p, m.ret.digest)
    ELSE Decided(m)

\* sync of a directory pair after its for loop: the else branch of line 209
sync_mismatch(m) ==
    IF ~Ok(m) THEN m ELSE [m EXCEPT !.errlog = TRUE]

RECURSIVE sync(_, _, _, _, _)
RECURSIVE sync_each(_, _, _, _, _)

\* the body of the for loop of sync: self.sync of the joined local path and
\* the listed file
sync_child(m, file, p) ==
    IF ~Ok(m) THEN m ELSE sync(m, m.ret, file, p, NoExtensions)

\* the for loop of the directory branch of sync
sync_each(m, local_path, files, i, p) ==
    IF ~Ok(m) \/ i > Len(files) THEN m
    ELSE sync_each(sync_child(Join(m, AsPath(local_path), Name(files[i].segs)),
                              files[i], p),
                   local_path, files, i + 1, p)

\* the directory branch of sync, the file list read
sync_dir(m, local_path, p) ==
    IF ~Ok(m) THEN m ELSE sync_each(m, local_path, m.ret, 1, p)

\* FTPSync.sync with remote_is_dir in ret
sync_kind(m, local_path, remote_path, p, extensions) ==
    IF ~Ok(m) THEN m
    ELSE IF IsDirNode(m.lfs, local_path.segs) /\ m.ret
         THEN sync_mismatch(sync_dir(get_file_list(m, remote_path), local_path, p))
    ELSE IF ~IsDirNode(m.lfs, local_path.segs) /\ ~m.ret
         THEN sync_file(_get_sync_direction(m, RemapLocal(local_path, extensions),
                                            RemapRemote(remote_path, extensions), p),
                        RemapLocal(local_path, extensions),
                        RemapRemote(remote_path, extensions), p)
    ELSE [m EXCEPT !.errlog = TRUE]

\* FTPSync.sync(local_path, remote_path, patcher, extensions): the pair is
\* logged ("Syncing ... and ...") before anything else
sync(m, local_path, remote_path, p, extensions) ==
    IF ~Ok(m) THEN m
    ELSE sync_kind(is_dir(Log(m, Event("sync", "pair", local_path.segs,
                                       remote_path.segs, None)),
                          remote_path),
                   local_path, remote_path, p, extensions)

(***************************************************************************)
(* State.                                                                  *)
(***************************************************************************)
VARIABLES
    lfs,             \* the local file system
    rfs,             \* the file system of the FTP server
    hash_db,         \* FTPSync.hash_db: {'local': {...}, 'remote': {...}}
    download_cache,  \* FTPHelper.download_cache and download_cache_path
    backups,         \* the files of FTPSync.backup_dir, by name
    patcher,         \* the patcher the configuration gives the sync pairs
    now,             \* the clock
    nops,            \* operations so far
    last,            \* the last operation: its arguments, outcome and events
    hash_db_json,    \* the file at FTPSync.hash_db_path
    peer,            \* a second FTPSync with its own FTPHelper
    pc               \* where each of the two instances is in its life

vars == <<lfs, rfs, hash_db, download_cache, backups, patcher, now, nops, last,
          hash_db_json, peer, pc>>

LA == Append(LDir, SegA)
LB == Append(LDir, SegB)
RA == Append(RDir, SegA)
RB == Append(RDir, SegB)

\* contents of the files before the first operation and of later edits
LocalContents == {<<1>>, <<1, 9, 9>>, <<2, 9, 9>>}
RemoteContents == {<<1>>, <<2>>}
OtherContents == {<<3>>}

\* the sync pairs: local_path and remote_path of the configuration are str;
\* a caller of the FTPSync methods may also hand a Path
FilePair == [l |-> PStr(LA), r |-> PStr(RA)]
DirPair == [l |-> PStr(LDir), r |-> PStr(RDir)]
DirPathPair == [l |-> PPath(LDir), r |-> PStr(RDir)]
DirFilePair == [l |-> PStr(LDir), r |-> PStr(RA)]
FileDirPair == [l |-> PStr(LA), r |-> PStr(RDir)]
Pairs == {FilePair, DirPair, DirPathPair, DirFilePair, FileDirPair}

NoVerdict == [direction |-> DO_NOT_SYNC, digest |-> None,
              lp_previous_hash |-> None, rp_previous_hash |-> None,
              lp_hash |-> None, rp_hash |-> None]

NoOp == [op |-> "init", l |-> PStr(<<>>), r |-> PStr(<<>>), failAt |-> 0,
         exc |-> "none", errlog |-> FALSE, decided |-> FALSE,
         verdict |-> NoVerdict, trace |-> <<>>]

\* the start time: files that exist were last written then
StartTime == TicksPerMinute

\* a file system with its directory and the given optional files
MakeFs(d, a, b) ==
    LET base == [x \in {<<>>, d} |-> DirNode]
        withA == IF a = None THEN base
                 ELSE Put(base, Append(d, SegA), FileNode(a[1], StartTime))
    IN IF b = None THEN withA
       ELSE Put(withA, Append(d, SegB), FileNode(b[1], StartTime))

Optional(S) == {None} \cup {<<x>> : x \in S}

\* the file at hash_db_path: missing, or with its text (a JSON document,
\* nothing, or bytes that do not parse), the record the text encodes and its
\* length
EmptyStore == [local |-> Empty, remote |-> Empty]
NoFile == [text |-> "absent", obj |-> EmptyStore, len |-> 0]
Truncated == [text |-> "empty", obj |-> EmptyStore, len |-> 0]
Corrupt(n) == [text |-> "corrupt", obj |-> EmptyStore, len |-> n]

\* the length of the JSON text of a record: every entry of this model (a path
\* of two segments, a digest) takes the same room
json_len(h) == Cardinality(DOMAIN h.local) + Cardinality(DOMAIN h.remote)

JsonFile(h) == [text |-> "json", obj |-> h, len |-> json_len(h)]

\* the second instance before it is constructed
NoPeer == [hash_db |-> EmptyStore, cache |-> NoCache]

\* one instance is up, the other one is never constructed
OneEngine == peer = NoPeer /\ pc = <<"up", "new">>

\* FTPSync.__init__ and FTPHelper.__init__ with no hash_db.json yet
Init ==
    /\ \E a \in Optional(LocalContents), b \in OtherContents :
          lfs = MakeFs(LDir, a, <<b>>)
    /\ \E a \in Optional(RemoteContents), b \in Optional(OtherContents) :
          rfs = MakeFs(RDir, a, b)
    /\ hash_db = [local |-> Empty, remote |-> Empty]
    /\ download_cache = NoCache
    /\ backups = Empty
    /\ patcher \in {"none", "desmume"}
    /\ now = StartTime
    /\ nops = 0
    /\ last = NoOp
    /\ hash_db_json = NoFile
    /\ OneEngine

\* the machine a handler starts from
Machine(failAt) ==
    [lfs |-> lfs, rfs |-> rfs, hash_db |-> hash_db, cache |-> download_cache,
     backups |-> backups, now |-> now, exc |-> "none", errlog |-> FALSE,
     ret |-> None, cmds |-> 0, failAt |-> failAt, trace |-> <<>>,
     decided |-> FALSE, verdict |-> NoVerdict]

\* the state a handler leaves
Finish(op, pair, failAt, m) ==
    /\ lfs' = m.lfs
    /\ rfs' = m.rfs
    /\ hash_db' = m.hash_db
    /\ download_cache' = m.cache
    /\ backups' = m.backups
    /\ last' = [op |-> op, l |-> pair.l, r |-> pair.r, failAt |-> failAt,
                exc |-> m.exc, errlog |-> m.errlog, decided |-> m.decided,
                verdict |-> m.verdict, trace |-> m.trace]
    /\ nops' = nops + 1
    /\ UNCHANGED <<patcher, now, hash_db_json, peer, pc>>

Faults == 0..MaxFaultAt

\* decide: FTPSync._get_sync_direction on a file pair
Decide(pair, failAt) ==
    /\ nops < MaxOps
    /\ Finish("decide", pair, failAt,
              Decided(_get_sync_direction(Machine(failAt), pair.l, pair.r, patcher)))

\* FTPSync.sync(local_path, remote_path, patcher)
Sync(pair, failAt) ==
    /\ nops < MaxOps
    /\ Finish("sync", pair, failAt,
              sync(Machine(failAt), pair.l, pair.r, patcher, NoExtensions))

\* push: FTPSync.sync_to(local_path, remote_path, patcher)
SyncTo(pair, failAt) ==
    /\ nops < MaxOps
    /\ Finish("sync_to", pair, failAt,
              sync_to(Machine(failAt), pair.l, pair.r, patcher, None))

\* pull: FTPSync.sync_from(local_path, remote_path, patcher)
SyncFrom(pair, failAt) ==
    /\ nops < MaxOps
    /\ Finish("sync_from", pair, failAt,
              sync_from(Machine(failAt), pair.l, pair.r, patcher, None))

\* somebody else writes or removes a file
Edited(op) ==
    /\ nops' = nops + 1
    /\ last' = [NoOp EXCEPT !.op = op]
    /\ UNCHANGED <<hash_db, download_cache, backups, patcher, now,
                   hash_db_json, peer, pc>>

WriteLocal(data) ==
    /\ nops < MaxOps
    /\ Content(lfs, LA) # <<data>>
    /\ lfs' = Put(lfs, LA, FileNode(data, now))
    /\ UNCHANGED rfs
    /\ Edited("edit")

RemoveLocal ==
    /\ nops < MaxOps
    /\ IsFile(lfs, LA)
    /\ lfs' = [x \in (DOMAIN lfs) \ {LA} |-> lfs[x]]
    /\ UNCHANGED rfs
    /\ Edited("edit")

WriteRemote(data) ==
    /\ nops < MaxOps
    /\ Content(rfs, RA) # <<data>>
    /\ rfs' = Put(rfs, RA, FileNode(data, now))
    /\ UNCHANGED lfs
    /\ Edited("edit")

RemoveRemote ==
    /\ nops < MaxOps
    /\ IsFile(rfs, RA)
    /\ rfs' = [x \in (DOMAIN rfs) \ {RA} |-> rfs[x]]
    /\ UNCHANGED lfs
    /\ Edited("edit")

\* time passes
Tick ==
    /\ nops < MaxOps
    /\ now' = now + 1
    /\ nops' = nops + 1
    /\ last' = [NoOp EXCEPT !.op = "tick"]
    /\ UNCHANGED <<lfs, rfs, hash_db, download_cache, backups, patcher,
                   hash_db_json, peer, pc>>

Next ==
    \/ \E f \in Faults : Decide(FilePair, f)
    \/ \E pair \in Pairs, f \in Faults : Sync(pair, f)
    \/ \E pair \in Pairs, f \in Faults : SyncTo(pair, f)
    \/ \E pair \in Pairs, f \in Faults : SyncFrom(pair, f)
    \/ \E data \in LocalContents : WriteLocal(data)
    \/ RemoveLocal
    \/ \E data \in RemoteContents : WriteRemote(data)
    \/ RemoveRemote
    \/ Tick

Spec == Init /\ [][Next]_vars

(***************************************************************************)
(* The decision engine on its own: the engine is constructed over any      *)
(* stored digests of the file pair (a hash_db.json left by earlier runs),  *)
(* then decides and syncs the pair.                                        *)
(***************************************************************************)
StoredDigests == Optional({<<1>>, <<2>>, <<1, 9, 9>>})

\* a stored digest under the key, or no key
Stored(path, d) == IF d = None THEN Empty ELSE Put(Empty, path, d)

InitDecide ==
    /\ \E a \in Optional(LocalContents) : lfs = MakeFs(LDir, a, None)
    /\ \E a \in Optional(RemoteContents), b \in Optional(OtherContents) :
          rfs = MakeFs(RDir, a, b)
    /\ \E dl \in StoredDigests, dr \in StoredDigests :
          hash_db = [local |-> Stored(FilePair.l, dl),
                     remote |-> Stored(FilePair.r, dr)]
    /\ download_cache = NoCache
    /\ backups = Empty
    /\ patcher \in {"none", "desmume"}
    /\ now = StartTime
    /\ nops = 0
    /\ last = NoOp
    /\ hash_db_json = JsonFile(hash_db)
    /\ OneEngine

NextDecide ==
    \/ \E f \in Faults : Decide(FilePair, f)
    \/ \E f \in Faults : Sync(FilePair, f)

SpecDecide == InitDecide /\ [][NextDecide]_vars

(***************************************************************************)
(* Properties.                                                             *)
(***************************************************************************)
\* the verdict of the last decision and the digests it was computed from
V == last.verdict

\* the events of the last operation
Events(kinds) == {i \in 1..Len(last.trace) : last.trace[i].ev \in kinds}

\* the events that transfer, back up or record a digest
TransferEvents == {"stor", "open_w", "write"}
EffectEvents == TransferEvents \cup {"backup_open", "backup_write", "set_digest"}

\* the current digest of the local file and of the patched remote file
LocalDigest(segs) == IF IsFile(lfs, segs) THEN md5(lfs[segs].data) ELSE None
RemoteDigest(segs) ==
    IF IsFile(rfs, segs) THEN md5(PatchFromRemote(patcher, rfs[segs].data)) ELSE None

\* C1: a decision on a file pair follows the table: NoSync if both digests
\* are absent, LocalToRemote with lp if only rp is absent, RemoteToLocal with
\* rp if only lp is absent; with both present and equal stored digests,
\* RemoteToLocal with rp if only the remote differs from its stored digest,
\* LocalToRemote with lp if only the local differs, NoSync if neither or both
\* differ; NoSync if both are present and the stored digests differ.  The
\* digests of a decide are those of the files and of the store.
C1_DecisionTable ==
    last.decided =>
        LET lp == V.lp_hash
            rp == V.rp_hash
            lpp == V.lp_previous_hash
            rpp == V.rp_previous_hash
        IN /\ (lp = None /\ rp = None) => V.direction = DO_NOT_SYNC
           /\ (lp # None /\ rp = None) =>
                  V.direction = LOCAL_TO_REMOTE /\ V.digest = lp
           /\ (lp = None /\ rp # None) =>
                  V.direction = REMOTE_TO_LOCAL /\ V.digest = rp
           /\ (lp # None /\ rp # None /\ lpp = rpp) =>
                  /\ (rp # rpp /\ lp = lpp) =>
                         V.direction = REMOTE_TO_LOCAL /\ V.digest = rp
                  /\ (rp = rpp /\ lp # lpp) =>
                         V.direction = LOCAL_TO_REMOTE /\ V.digest = lp
                  /\ ((rp = rpp) <=> (lp = lpp)) => V.direction = DO_NOT_SYNC
           /\ (lp # None /\ rp # None /\ lpp # rpp) => V.direction = DO_NOT_SYNC
           /\ last.op = "decide" =>
                  /\ lpp = Get(hash_db.local, last.l)
                  /\ rpp = Get(hash_db.remote, last.r)
                  /\ lp = LocalDigest(last.l.segs)
                  /\ last.failAt = 0 => rp = RemoteDigest(last.r.segs)

\* a decide that found only the remote file changed since the stored digests
C1_Witness ==
    /\ last.op = "decide" /\ last.decided
    /\ V.direction = REMOTE_TO_LOCAL
    /\ V.lp_hash # None /\ V.lp_hash = V.lp_previous_hash
    /\ V.lp_previous_hash = V.rp_previous_hash

\* both current digests differ from the stored ones
BothChanged == V.lp_hash # V.lp_previous_hash /\ V.rp_hash # V.rp_previous_hash

\* the last operation decided NoSync and transferred nothing
Refused == V.direction = DO_NOT_SYNC /\ Events(EffectEvents) = {}

\* C2 as stated: whenever both current digests (hash or absent) differ from
\* the stored ones, the decision is NoSync and nothing is transferred
C2_Original == (last.decided /\ BothChanged) => Refused

\* C2 as amended: whenever both files exist and both their digests differ from
\* the stored ones, the decision is NoSync and nothing is transferred
C2_ConflictSafety ==
    (last.decided /\ V.lp_hash # None /\ V.rp_hash # None /\ BothChanged) => Refused

\* a sync of two existing files that both changed since their last agreement
C2_Witness ==
    /\ last.op = "sync" /\ last.decided /\ BothChanged
    /\ V.lp_hash # None /\ V.rp_hash # None
    /\ V.lp_previous_hash = V.rp_previous_hash /\ V.lp_previous_hash # None

\* the last operation worked on the file pair
OnFilePair == last.l = FilePair.l /\ last.r = FilePair.r

\* the last operation was a push of the file pair that completed
PushDone ==
    /\ last.op = "sync_to" /\ OnFilePair
    /\ last.exc = "none" /\ Events({"set_digest"}) # {}

\* the bytes end with the footer of the shipped patcher
EndsWithFooter(data) ==
    /\ Len(data) >= Len(DESMUME_FOOTER)
    /\ SubSeq(data, Len(data) - Len(DESMUME_FOOTER) + 1, Len(data)) = DESMUME_FOOTER

\* the local file of the pair is one the configured patcher maps back onto
\* itself
LocalFitsPatcher ==
    patcher = "none" \/ (IsFile(lfs, LA) /\ EndsWithFooter(lfs[LA].data))

C4_Idempotent ==
    [][(last.op = "decide" /\ last.decided /\ last.failAt = 0
          /\ last'.op = "decide" /\ last'.failAt = 0)
         => (last'.decided /\ last'.verdict = last.verdict)]_vars

\* the last operation transferred the file pair and completed
TransferDone ==
    /\ last.op \in {"sync_to", "sync_from", "sync"} /\ OnFilePair
    /\ last.exc = "none" /\ Events({"stor", "write"}) # {}

\* the digest entries are written as a pair: the local one, then the remote
\* one with the same digest
PairedWrites ==
    \A i \in Events({"set_digest"}) :
        LET e == last.trace[i] IN
        /\ e.side = "local" =>
              /\ i < Len(last.trace)
              /\ last.trace[i + 1].ev = "set_digest"
              /\ last.trace[i + 1].side = "remote"
              /\ last.trace[i + 1].data = e.data
        /\ e.side = "remote" =>
              /\ i > 1
              /\ last.trace[i - 1].ev = "set_digest"
              /\ last.trace[i - 1].side = "local"
              /\ last.trace[i - 1].data = e.data

\* both entries of the pair hold the digest of the local file
StoredIsLocalDigest ==
    /\ Get(hash_db.local, FilePair.l) = Get(hash_db.remote, FilePair.r)
    /\ Get(hash_db.local, FilePair.l) = LocalDigest(LA)
    /\ LocalDigest(LA) # None

\* C5 as stated: after a completed transfer of the file pair both entries
\* hold the digest of the local file, which is the digest of the remote file
\* read through from_remote; entries are only written in pairs
C5_Original ==
    /\ TransferDone => (StoredIsLocalDigest /\ LocalDigest(LA) = RemoteDigest(RA))
    /\ PairedWrites

\* C5 as amended: after a completed transfer of the file pair both entries
\* hold the digest of the local file; it is the digest of the remote file
\* read through from_remote when there is no patcher or the local content
\* ends with the patcher's footer; entries are only written in pairs
C5_DualWrite ==
    /\ TransferDone =>
          /\ StoredIsLocalDigest
          /\ LocalFitsPatcher => LocalDigest(LA) = RemoteDigest(RA)
    /\ PairedWrites

\* a completed push through the patcher of a local file that ends with the
\* footer
C5_Witness ==
    /\ last.op = "sync_to" /\ TransferDone
    /\ patcher = "desmume" /\ LocalFitsPatcher

\* C6: a pull of the directory pair that completes uploaded nothing and left
\* every local child with the un-transformed content of its remote file
C6_PullOnlyDownloads ==
    (last.op = "sync_from" /\ last.l.segs = LDir /\ last.r.segs = RDir
       /\ last.exc = "none")
      => /\ Events({"stor"}) = {}
         /\ \A n \in FileNames :
               IsFile(rfs, Append(RDir, n)) =>
                   Content(lfs, Append(LDir, n))
                     = <<PatchFromRemote(patcher, rfs[Append(RDir, n)].data)>>

\* C7: every upload and every opening of a local file for writing comes after
\* the backup of that file was opened, and when it replaces an existing file
\* the content it replaces has been written to a backup entry, which the
\* backup directory holds
C7_BackupBeforeOverwrite ==
    \A i \in Events({"stor", "open_w"}) :
        LET e == last.trace[i] IN
        /\ \E j \in 1..(i - 1) :
              /\ last.trace[j].ev = "backup_open"
              /\ last.trace[j].side = e.side
              /\ last.trace[j].path = e.path
        /\ e.old # None =>
              /\ \E j \in 1..(i - 1) :
                    /\ last.trace[j].ev = "backup_write"
                    /\ last.trace[j].side = e.side
                    /\ last.trace[j].path = e.path
                    /\ last.trace[j].data = e.old[1]
              /\ \E name \in DOMAIN backups :
                    name.path = e.path /\ backups[name] = e.old[1]

\* a completed pull that replaced an existing local file
C7_Witness ==
    /\ last.op = "sync_from" /\ last.exc = "none"
    /\ \E i \in Events({"open_w"}) :
          last.trace[i].old # None /\ last.trace[i].old # <<<<>>>>

\* C8: a push of the file pair whose remote file is missing, and a pull whose
\* local file is missing, add no backup entry, and the backup of the push
\* raises no error
C8_MissingSubjectNoOp ==
    [][(/\ last'.op \in {"sync_to", "sync_from"}
        /\ last'.l = FilePair.l /\ last'.r = FilePair.r
        /\ last'.failAt = 0
        /\ Exists(rfs, RB)
        /\ last'.op = "sync_to" => ~Exists(rfs, RA)
        /\ last'.op = "sync_from" => ~Exists(lfs, LA))
         => (/\ backups' = backups
             /\ last'.op = "sync_to" => last'.exc # "error_perm")]_vars

\* C9: a sync of the file pair whose remote read for the digest ends with a
\* transport error passes the error on and transfers and records nothing
C9_FailureSurfaced ==
    (last.op = "sync" /\ OnFilePair /\ last.failAt = 2
       /\ Events({"digest_failed"}) # {})
      => /\ last.exc = "error_temp"
         /\ Events({"stor", "open_w", "write", "set_digest"}) = {}

\* the pairs with a directory on exactly one side
MismatchPairs == {DirFilePair, FileDirPair}

\* C10: sync, push and pull of a pair with a directory on exactly one side
\* signal an error (logged or raised) and change no file, no backup entry
\* and no digest
C10_KindMismatch ==
    [][(/\ last'.op \in {"sync", "sync_to", "sync_from"}
        /\ [l |-> last'.l, r |-> last'.r] \in MismatchPairs)
         => (/\ last'.errlog \/ last'.exc # "none"
             /\ UNCHANGED <<lfs, rfs, hash_db, backups>>)]_vars

\* a push of a local file onto a remote directory that logged the error
C10_Witness ==
    /\ last.op = "sync_to" /\ last.l = FileDirPair.l /\ last.r = FileDirPair.r
    /\ last.errlog /\ last.exc = "none"
    /\ IsFile(lfs, LA)

\* the pairs that the sync calls of the last operation were given, in order
SyncCalls ==
    LET calls == SelectSeq(last.trace, LAMBDA e : e.ev = "sync")
    IN [i \in 1..Len(calls) |-> [l |-> calls[i].path, r |-> calls[i].data]]

\* the child pairs of a directory pair: one per entry of the listing that is
\* no directory, in the order of the listing
ChildPairs(fs, l, r) ==
    LET files == SelectSeq(Listing(fs, r), LAMBDA e : ~e.isdir)
    IN [i \in 1..Len(files) |->
          [l |-> Append(l, files[i].name), r |-> Append(r, files[i].name)]]

IsPrefix(s, t) == Len(s) <= Len(t) /\ SubSeq(t, 1, Len(s)) = s

\* C11: a sync of a directory pair without transport faults raises no
\* IndexError for any remote listing, the empty one included; the pairs it
\* processes after the directory pair itself are the child pairs of the
\* listing in order (all of them when it completes); a sync of a file pair
\* processes that pair only
C11_Expansion ==
    [][(last'.op = "sync" /\ last'.failAt = 0)
         => /\ (IsDirNode(lfs, last'.l.segs) /\ IsDirNode(rfs, last'.r.segs)) =>
                  /\ last'.exc # "IndexError"
                  /\ IsPrefix(SyncCalls', <<[l |-> last'.l.segs, r |-> last'.r.segs]>>
                                            \o ChildPairs(rfs, last'.l.segs, last'.r.segs))
                  /\ last'.exc = "none" =>
                         Len(SyncCalls')
                           = 1 + Len(ChildPairs(rfs, last'.l.segs, last'.r.segs))
            /\ (~IsDirNode(lfs, last'.l.segs) /\ ~IsDirNode(rfs, last'.r.segs)) =>
                  SyncCalls' = <<[l |-> last'.l.segs, r |-> last'.r.segs]>>]_vars

(***************************************************************************)
(* The patcher on its own: the engine is constructed over a file pair      *)
(* whose two files hold any byte sequences up to MaxLen, then pushes and   *)
(* pulls the pair.                                                         *)
(***************************************************************************)
Bytes == {1, 9}
ByteSeqs == UNION {[1..n -> Bytes] : n \in 0..MaxLen}

InitPatcher ==
    /\ \E x \in ByteSeqs : lfs = MakeFs(LDir, <<x>>, None)
    /\ \E y \in ByteSeqs : rfs = MakeFs(RDir, <<y>>, None)
    /\ hash_db = [local |-> Empty, remote |-> Empty]
    /\ download_cache = NoCache
    /\ backups = Empty
    /\ patcher \in {"none", "desmume"}
    /\ now = StartTime
    /\ nops = 0
    /\ last = NoOp
    /\ hash_db_json = NoFile
    /\ OneEngine

NextPatcher ==
    \/ \E f \in {0} : SyncTo(FilePair, f)
    \/ \E f \in {0} : SyncFrom(FilePair, f)

SpecPatcher == InitPatcher /\ [][NextPatcher]_vars

\* C12: a push through the footer patcher stores to_remote of the local
\* bytes, and from_remote of what it stored is the local bytes again when
\* they end with the footer; a pull through the patcher writes from_remote
\* of the remote bytes, and to_remote of what it wrote is the remote bytes
\* again; without a patcher push and pull transfer the bytes unchanged
C12_RoundTrip ==
    [][/\ (last'.op = "sync_to" /\ last'.exc = "none") =>
             IF patcher = "desmume"
             THEN /\ rfs'[RA].data = to_remote(lfs[LA].data)
                  /\ EndsWithFooter(lfs[LA].data) =>
                         from_remote(rfs'[RA].data) = lfs[LA].data
             ELSE rfs'[RA].data = lfs[LA].data
       /\ (last'.op = "sync_from" /\ last'.exc = "none") =>
             IF patcher = "desmume"
             THEN /\ lfs'[LA].data = from_remote(rfs[RA].data)
                  /\ to_remote(lfs'[LA].data) = rfs[RA].data
             ELSE lfs'[LA].data = rfs[RA].data]_vars

\* a pull through the patcher, completed, followed by a completed push that
\* left the remote bytes as they were
C12_Witness ==
    /\ patcher = "desmume" /\ nops = 2
    /\ last.op = "sync_to" /\ last.exc = "none"
    /\ EndsWithFooter(lfs[LA].data)
    /\ from_remote(rfs[RA].data) = lfs[LA].data
    /\ Len(rfs[RA].data) > 0
    /\ \E name \in DOMAIN backups : name.path = LA

\* C13: a sync of the file pair without transport faults that decides
\* RemoteToLocal completes with a single download of the remote file, and the
\* local file then holds the content whose digest the decision carried
C13_CacheReuse ==
    (last.op = "sync" /\ OnFilePair /\ last.failAt = 0
       /\ last.decided /\ V.direction = REMOTE_TO_LOCAL)
      => /\ last.exc = "none"
         /\ Cardinality(Events({"retr"})) = 1
         /\ LocalDigest(LA) = V.digest

(***************************************************************************)
(* The transfers of the file pair with a transport fault at any of their   *)
(* remote commands.                                                        *)
(***************************************************************************)
NextTransfer ==
    \/ \E f \in 0..MaxCmd : SyncTo(FilePair, f)
    \/ \E f \in 0..MaxCmd : SyncFrom(FilePair, f)
    \/ \E f \in 0..MaxCmd : Sync(FilePair, f)

SpecTransfer == Init /\ [][NextTransfer]_vars

\* C14: a push, pull or sync of the file pair that ends with an exception
\* after its backup step (in the upload or the download) wrote no digest:
\* the Digest Store is as it was before
C14_FailedTransferNoStore ==
    [][(last'.op \in {"sync_to", "sync_from", "sync"} /\ last'.exc # "none")
         => hash_db' = hash_db]_vars

\* a push whose STOR command ended with a transport error after the backup
\* of the remote file was written
C14_Witness ==
    /\ last.op = "sync_to" /\ last.exc = "error_temp"
    /\ \E i \in Events({"backup_write"}) : last.trace[i].side = "remote"
    /\ Events({"stor"}) = {}
    /\ IsFile(lfs, LA)

(***************************************************************************)
(* The operations on the directory pair with a transport fault at any of   *)
(* their remote commands.                                                  *)
(***************************************************************************)
NextDir ==
    \/ \E f \in 0..MaxDirCmd : SyncTo(DirPathPair, f)
    \/ \E f \in 0..MaxDirCmd : SyncFrom(DirPathPair, f)
    \/ \E f \in 0..MaxDirCmd : Sync(DirPair, f)

SpecDir == Init /\ [][NextDir]_vars

\* the events of a trace at which sync, sync_to or sync_from was entered
CallEvents(tr) == {i \in 1..Len(tr) : tr[i].ev \in {"sync", "sync_to", "sync_from"}}

\* the place of a pair in a sequence of pairs, 0 when it is not in it
Pos(pairs, l, r) ==
    IF \E n \in 1..Len(pairs) : pairs[n] = [l |-> l, r |-> r]
    THEN CHOOSE n \in 1..Len(pairs) : pairs[n] = [l |-> l, r |-> r]
    ELSE 0

\* the greatest element of a non-empty set of numbers
Greatest(S) == CHOOSE x \in S : \A y \in S : y <= x

\* the digest the trace wrote last under a path of a side, None when it
\* wrote none
LastWritten(tr, side, segs) ==
    LET w == {i \in 1..Len(tr) : tr[i].ev = "set_digest" /\ tr[i].side = side
                                   /\ tr[i].path = segs}
    IN IF w = {} THEN None ELSE <<tr[Greatest(w)].data>>

\* one side of the store is the earlier one with the digests of the trace
\* written over it
StoreFollows(new, old, tr, side) ==
    /\ DOMAIN old \subseteq DOMAIN new
    /\ \A k \in DOMAIN new :
          IF LastWritten(tr, side, k.segs) # None
          THEN new[k] = LastWritten(tr, side, k.segs)[1]
          ELSE k \in DOMAIN old /\ new[k] = old[k]

\* C15: in an operation on a directory pair the children are entered in the
\* order of the remote listing; when the operation ends with an exception,
\* no digest was written after the last child was entered, and the store
\* holds the digests that the earlier children wrote, as written
C15_ChildFailure ==
    [][(/\ last'.op \in {"sync", "sync_to", "sync_from"}
        /\ IsDirNode(lfs, last'.l.segs) /\ IsDirNode(rfs, last'.r.segs))
         => LET tr == last'.trace
                cp == ChildPairs(rfs, last'.l.segs, last'.r.segs)
                children == CallEvents(tr) \ {1}
            IN /\ \A i \in children : Pos(cp, tr[i].path, tr[i].data) > 0
               /\ \A i \in children, j \in children :
                     i < j => Pos(cp, tr[i].path, tr[i].data)
                                <= Pos(cp, tr[j].path, tr[j].data)
               /\ last'.exc # "none" =>
                     /\ \A i \in 1..Len(tr) :
                           tr[i].ev = "set_digest" => i < Greatest(CallEvents(tr))
                     /\ StoreFollows(hash_db'.local, hash_db.local, tr, "local")
                     /\ StoreFollows(hash_db'.remote, hash_db.remote, tr, "remote")]_vars

\* a push of the directory pair whose first child completed and wrote its
\* digests and whose second child ended with a transport error
C15_Witness ==
    /\ last.op = "sync_to" /\ last.l = DirPathPair.l /\ last.exc = "error_temp"
    /\ \E i \in Events({"set_digest"}) : last.trace[i].path = LA
    /\ \E i \in Events({"sync_to"}) : last.trace[i].path = LB
    /\ PPath(LA) \in DOMAIN hash_db.local
    /\ PPath(LB) \notin DOMAIN hash_db.local

\* C16: every backup entry that a push or a sync of the file pair without
\* transport faults writes for the existing remote file holds the bytes of
\* the remote file passed through from_remote of the configured patcher
C16_RemoteBackupPatched ==
    [][(/\ last'.op \in {"sync_to", "sync"}
        /\ last'.l = FilePair.l /\ last'.r = FilePair.r
        /\ last'.failAt = 0
        /\ IsFile(rfs, RA))
         => \A name \in DOMAIN backups' :
               (/\ name.path = RA
                /\ name \notin DOMAIN backups \/ backups'[name] # backups[name])
                 => backups'[name] = PatchFromRemote(patcher, rfs[RA].data)]_vars

\* C17: no step changes or removes a backup entry that was written before
C17_AppendOnly ==
    [][\A name \in DOMAIN backups :
          name \in DOMAIN backups' /\ backups'[name] = backups[name]]_vars

(***************************************************************************)
(* sync with an extension remap: the local suffix of the pair is declared  *)
(* ".dsv", the remote one ".sav".                                          *)
(***************************************************************************)
DsvExtensions == [set |-> TRUE, local |-> <<".dsv">>, remote |-> <<".sav">>]

\* FTPSync.sync(local_path, remote_path, patcher, extensions)
SyncRemap(pair, failAt) ==
    /\ nops < MaxOps
    /\ Finish("sync_remap", pair, failAt,
              sync(Machine(failAt), pair.l, pair.r, patcher, DsvExtensions))

NextRemap ==
    \E pair \in {FilePair, DirPair}, f \in Faults : SyncRemap(pair, f)

SpecRemap == Init /\ [][NextRemap]_vars

\* the path with its suffix replaced: same directory, same stem
WithSuffix(segs, suffix) == Append(Parent(segs), <<Name(segs)[1], suffix>>)

\* C18: in a sync of the file pair with the extension remap every local file
\* that is backed up, written or recorded in the store is the local path of
\* the pair with its suffix replaced by the declared one, and every key of
\* the local side of the store is that path
C18_RemapSuffixOnly ==
    (last.op = "sync_remap" /\ OnFilePair)
      => /\ \A i \in 1..Len(last.trace) :
               last.trace[i].side = "local"
                 => last.trace[i].path = WithSuffix(LA, ".dsv")
         /\ \A k \in DOMAIN hash_db.local : k.segs = WithSuffix(LA, ".dsv")

(***************************************************************************)
(* Automatic sync of the file pair on one engine, with the files edited    *)
(* in between and a transport fault at any of the first commands.          *)
(***************************************************************************)
NextSync ==
    \/ \E f \in Faults : Sync(FilePair, f)
    \/ \E data \in LocalContents : WriteLocal(data)
    \/ \E data \in RemoteContents : WriteRemote(data)

SpecSync == Init /\ [][NextSync]_vars

\* the last operation was a sync of the file pair that transferred and
\* completed
SyncDone == last.op = "sync" /\ TransferDone

\* the next operation is a sync of the file pair without a transport fault
\* that decides NoSync, transfers, backs up and records nothing, and whose
\* remote digest is that of the remote file as it is now
SecondSyncQuiet ==
    /\ last'.op = "sync" /\ last'.failAt = 0
    /\ last'.decided /\ last'.verdict.direction = DO_NOT_SYNC
    /\ \A i \in 1..Len(last'.trace) : last'.trace[i].ev \notin EffectEvents
    /\ hash_db' = hash_db
    /\ last'.verdict.rp_hash = RemoteDigest(RA)

OtherPair == [l |-> PStr(LB), r |-> PStr(RB)]

\* self.hash_db of an instance
hash_db_of(e) == IF e = 1 THEN hash_db ELSE peer.hash_db

\* json.dump refuses a key that is not a str
HasPathKey(h) == \E k \in DOMAIN h.local \cup DOMAIN h.remote : k.typ = "Path"

\* a save that adds the record to the one the file holds
json_dump_Merged(h, file) ==
    IF HasPathKey(h) THEN Corrupt(Max(file.len, json_len(h)))
    ELSE IF file.text = "json"
         THEN JsonFile([local |-> [k \in DOMAIN file.obj.local \cup DOMAIN h.local |->
                                     IF k \in DOMAIN h.local THEN h.local[k]
                                     ELSE file.obj.local[k]],
                        remote |-> [k \in DOMAIN file.obj.remote \cup DOMAIN h.remote |->
                                     IF k \in DOMAIN h.remote THEN h.remote[k]
                                     ELSE file.obj.remote[k]]])
         ELSE JsonFile(h)

\* json.dump(self.hash_db, f) and the close of f in FTPSync.__del__: the text
\* is written from the start of the file over whatever another handle wrote
\* there since this one was opened
json_dump(h, file) ==
    IF HasPathKey(h) THEN Corrupt(Max(file.len, json_len(h)))
    ELSE IF file.len > json_len(h) THEN Corrupt(file.len)
    ELSE JsonFile(h)

\* FTPSync.__init__ of an instance: the record is read from the file; a file
\* that does not parse ends the construction with JSONDecodeError, and the
\* __del__ of the instance that was being built truncates the file and fails
__init__(e) ==
    /\ pc[e] = "new"
    /\ IF hash_db_json.text \in {"empty", "corrupt"}
       THEN /\ pc' = [pc EXCEPT ![e] = "failed"]
            /\ hash_db_json' = Truncated
            /\ UNCHANGED <<hash_db, download_cache, peer>>
       ELSE /\ pc' = [pc EXCEPT ![e] = "up"]
            /\ UNCHANGED hash_db_json
            /\ IF e = 1
               THEN /\ hash_db' = hash_db_json.obj
                    /\ download_cache' = NoCache
                    /\ UNCHANGED peer
               ELSE /\ peer' = [hash_db |-> hash_db_json.obj, cache |-> NoCache]
                    /\ UNCHANGED <<hash_db, download_cache>>
    /\ last' = [NoOp EXCEPT !.op = "__init__"]
    /\ UNCHANGED <<lfs, rfs, backups, patcher, now, nops>>

\* FTPSync.__del__, open(self.hash_db_path, 'w+'): the file is truncated
__del__open(e) ==
    /\ pc[e] = "up"
    /\ pc' = [pc EXCEPT ![e] = "saving"]
    /\ hash_db_json' = Truncated
    /\ last' = [NoOp EXCEPT !.op = "__del__"]
    /\ UNCHANGED <<lfs, rfs, hash_db, download_cache, backups, patcher, now,
                   nops, peer>>

\* FTPSync.__del__, json.dump and the end of the with block
__del__dump(e) ==
    /\ pc[e] = "saving"
    /\ pc' = [pc EXCEPT ![e] = "down"]
    /\ hash_db_json' = json_dump(hash_db_of(e), hash_db_json)
    /\ last' = [NoOp EXCEPT !.op = "__del__"]
    /\ UNCHANGED <<lfs, rfs, hash_db, download_cache, backups, patcher, now,
                   nops, peer>>

\* the machine a handler of the second instance starts from
PeerMachine(failAt) ==
    [Machine(failAt) EXCEPT !.hash_db = peer.hash_db, !.cache = peer.cache]

\* the state a handler of the second instance leaves
PeerFinish(op, pair, failAt, m) ==
    /\ lfs' = m.lfs
    /\ rfs' = m.rfs
    /\ peer' = [hash_db |-> m.hash_db, cache |-> m.cache]
    /\ backups' = m.backups
    /\ last' = [op |-> op, l |-> pair.l, r |-> pair.r, failAt |-> failAt,
                exc |-> m.exc, errlog |-> m.errlog, decided |-> m.decided,
                verdict |-> m.verdict, trace |-> m.trace]
    /\ nops' = nops + 1
    /\ UNCHANGED <<hash_db, download_cache, patcher, now, hash_db_json, pc>>

\* push by the first instance
Push(pair, failAt) == pc[1] = "up" /\ SyncTo(pair, failAt)

\* push by the second instance: FTPSync.sync_to(local_path, remote_path, patcher)
PeerPush(pair, failAt) ==
    /\ pc[2] = "up"
    /\ nops < MaxOps
    /\ PeerFinish("peer_sync_to", pair, failAt,
                  sync_to(PeerMachine(failAt), pair.l, pair.r, patcher, None))

\* the digests an earlier run left in the file
LeftDigests == [local |-> Stored(FilePair.l, md5(<<2>>)),
                remote |-> Stored(FilePair.r, md5(<<2>>))]

InitRace ==
    /\ \E a \in LocalContents, b \in OtherContents : lfs = MakeFs(LDir, <<a>>, <<b>>)
    /\ \E a \in RemoteContents, b \in Optional(OtherContents) :
          rfs = MakeFs(RDir, <<a>>, b)
    /\ hash_db_json \in {NoFile, JsonFile(LeftDigests)}
    /\ hash_db = EmptyStore
    /\ download_cache = NoCache
    /\ peer = NoPeer
    /\ pc = <<"new", "new">>
    /\ backups = Empty
    /\ patcher = "none"
    /\ now = StartTime
    /\ nops = 0
    /\ last = NoOp

NextRace ==
    \/ \E e \in {1, 2} : __init__(e)
    \/ \E f \in Faults : Push(FilePair, f)
    \/ \E f \in Faults : PeerPush(OtherPair, f)
    \/ \E e \in {1, 2} : __del__open(e)
    \/ \E e \in {1, 2} : __del__dump(e)

SpecRace == InitRace /\ [][NextRace]_vars

\* both instances were constructed and are torn down
BothDown == pc = <<"down", "down">>

\* C21: the save is of the whole record: once both instances are torn down, a
\* file that parses holds exactly the record one of the two instances had in
\* memory, never entries of both put together, so what the other instance
\* recorded is not in it
C21_WholeRecordSave ==
    (BothDown /\ hash_db_json.text = "json")
      => hash_db_json.obj \in {hash_db, peer.hash_db}

\* both instances completed the push of their pair and are torn down; the file
\* holds the record of the second instance and not the digests the first one
\* recorded for its pair
C21_Witness ==
    /\ BothDown /\ hash_db_json.text = "json"
    /\ Get(hash_db.local, FilePair.l) = LocalDigest(LA)
    /\ Get(hash_db.remote, FilePair.r) = LocalDigest(LA)
    /\ Get(peer.hash_db.local, OtherPair.l) = LocalDigest(LB)
    /\ \E name \in DOMAIN backups : name.path = RA
    /\ \E name \in DOMAIN backups : name.path = RB
    /\ hash_db_json.obj = peer.hash_db
    /\ Get(hash_db_json.obj.local, FilePair.l) # LocalDigest(LA)
    /\ Get(hash_db_json.obj.remote, FilePair.r) # LocalDigest(LA)

====
